---- MODULE Spec2Model ----
(***************************************************************************)
(* Navigation::ScanMessage (include/navigation/navigation_type.h): one     *)
(* lidar sweep held as a Cartesian vector scan_xy_ and/or a polar vector   *)
(* scan_rt_, with the flag sorted_by_theta_.                               *)
(*                                                                         *)
(* Numbers.  The floats of the source are held on integer grids:           *)
(*   theta   to the nearest multiple of pi / 2^24 (1.87e-7 rad), which is  *)
(*           fine enough to tell apart every float theta the model meets:  *)
(*           (float)M_PI is 2^24, the float just below it, 3.1415925, is   *)
(*           2^24 - 1, pi/2 is 2^23 and delta_theta = 0.5 * M_PI / 512 is  *)
(*           2^14 = 16384;                                                 *)
(*   radius  in whole length units;                                        *)
(*   x, y    in 1/XYScale of a length unit, rounded to nearest; the float  *)
(*           products radius * cosf(theta) and radius * sinf(theta) are    *)
(*           tabulated below from the float results, one entry for every   *)
(*           radius and theta, so that they keep their low-order digits.   *)
(* Every sample carries a ghost field id, the position at which the sample *)
(* was inserted; no operation of the class reads it.  The time point tp_   *)
(* is independent of the samples and is left out.                          *)
(***************************************************************************)
EXTENDS Integers, Sequences, FiniteSets

VARIABLES scan_xy_, scan_rt_, sorted_by_theta_, op, ret

vars == <<scan_xy_, scan_rt_, sorted_by_theta_, op, ret>>

\* ---- bounds of the model ----
MaxLen == 3        \* most samples of a frame: constructor input, push_back growth
MaxInputLen == 2   \* longest vector handed to setScanXY or setScanRT

\* ---- program constants ----
DeltaTheta == 16384    \* delta_theta = 0.5 * M_PI / 512, in units of pi / 2^24
Pi == 16777216         \* (float)M_PI = 3.14159274
HalfPi == Pi \div 2
\* the float next below (float)M_PI, 3.1415925: what atan2f returns for a point
\* that RTtoXY made from a theta of -(float)M_PI
PiBelow == Pi - 1
XYScale == 100000000

\* radii and thetas of the polar input samples: two samples can be at the same
\* theta, exactly delta_theta apart, closer (half a delta_theta), or farther
\* apart
RadiusInputs == {1, 2}
ThetaInputs == {0, DeltaTheta, DeltaTheta + DeltaTheta \div 2}

Abs(a) == IF a < 0 THEN 0 - a ELSE a
\* the larger of the two instead of the smaller
fminAsMax(a, b) == IF b < a THEN a ELSE b
\* fmin that always yields its second argument
fminAsSecond(a, b) == b

fmin(a, b) == IF b < a THEN b ELSE a

\* ---- input domains ----
PolarInputs == [radius : RadiusInputs, theta : ThetaInputs]
CartesianInputs ==
    {[x |-> r * XYScale, y |-> 0] : r \in RadiusInputs}
        \cup {[x |-> 0, y |-> XYScale]}

SeqsUpTo(S, n) == UNION {[1..k -> S] : k \in 0..n}

\* the samples of the polar vectors handed to setScanRT: a chain in which
\* neighbours are within delta_theta of each other and the ends are not, with
\* the small radius at one end; a vector may repeat a sample and need not be
\* in angular order
VectorPolarInputs ==
    {[radius |-> 1, theta |-> 0],
     [radius |-> 2, theta |-> DeltaTheta],
     [radius |-> 2, theta |-> DeltaTheta + DeltaTheta \div 2]}

\* an input vector as stored: element i is the i-th inserted sample
TagRT(s) == [i \in 1..Len(s) |->
                [radius |-> s[i].radius, theta |-> s[i].theta, id |-> i]]
TagXY(s) == [i \in 1..Len(s) |-> [x |-> s[i].x, y |-> s[i].y, id |-> i]]

\* ---- float conversions ----
\* The float products radius * cosf(theta) and radius * sinf(theta) of RTtoXY,
\* times XYScale and rounded to nearest, for radius r and theta k.
CosTab(r, k) ==
    CASE r = 1 /\ k = 0 -> 100000000
      [] r = 1 /\ k = DeltaTheta -> 99999529
      [] r = 1 /\ k = DeltaTheta + DeltaTheta \div 2 -> 99998939
      [] r = 1 /\ k \in {HalfPi, 0 - HalfPi} -> -4
      [] r = 1 /\ k \in {Pi, 0 - Pi, PiBelow, 0 - PiBelow} -> -100000000
      [] r = 2 /\ k = 0 -> 200000000
      [] r = 2 /\ k = DeltaTheta -> 199999058
      [] r = 2 /\ k = DeltaTheta + DeltaTheta \div 2 -> 199997878
      [] r = 2 /\ k \in {HalfPi, 0 - HalfPi} -> -9
      [] r = 2 /\ k \in {Pi, 0 - Pi, PiBelow, 0 - PiBelow} -> -200000000
SinTab(r, k) ==
    CASE r = 1 /\ k = 0 -> 0
      [] r = 1 /\ k = DeltaTheta -> 306796
      [] r = 1 /\ k = DeltaTheta + DeltaTheta \div 2 -> 460193
      [] r = 1 /\ k = HalfPi -> 100000000
      [] r = 1 /\ k = 0 - HalfPi -> -100000000
      [] r = 1 /\ k = Pi -> -9
      [] r = 1 /\ k = 0 - Pi -> 9
      [] r = 1 /\ k = PiBelow -> 15
      [] r = 1 /\ k = 0 - PiBelow -> -15
      [] r = 2 /\ k = 0 -> 0
      [] r = 2 /\ k = DeltaTheta -> 613591
      [] r = 2 /\ k = DeltaTheta + DeltaTheta \div 2 -> 920385
      [] r = 2 /\ k = HalfPi -> 200000000
      [] r = 2 /\ k = 0 - HalfPi -> -200000000
      [] r = 2 /\ k = Pi -> -17
      [] r = 2 /\ k = 0 - Pi -> 17
      [] r = 2 /\ k = PiBelow -> 30
      [] r = 2 /\ k = 0 - PiBelow -> -30

\* thetas the tables cover
TabThetas ==
    ThetaInputs \cup {HalfPi, 0 - HalfPi, Pi, 0 - Pi, PiBelow, 0 - PiBelow}

\* a conversion to polar form that never computes the angle
XYtoRTWithoutAngle(xy) ==
    CASE xy.y = 0 ->
             [radius |-> Abs(xy.x) \div XYScale, theta |-> 0, id |-> xy.id]
      [] xy.x = 0 /\ xy.y # 0 ->
             [radius |-> Abs(xy.y) \div XYScale, theta |-> 0, id |-> xy.id]
      [] OTHER ->
             LET g == CHOOSE g \in [radius : RadiusInputs, theta : TabThetas] :
                          /\ CosTab(g.radius, g.theta) = xy.x
                          /\ SinTab(g.radius, g.theta) = xy.y
             IN  [radius |-> g.radius, theta |-> 0, id |-> xy.id]

\* XYtoRT: radius = hypotf(x, y), theta = atan2f(y, x), to the nearest grid
\* value.  On an axis the results are exact.  Off the axes the points are the
\* ones RTtoXY produces: hypotf gives the radius back and atan2f the theta,
\* except at (float)M_PI: sinf((float)M_PI) is -8.74e-8, not 0, so the point
\* made from theta = (float)M_PI lies just below the negative x axis and
\* atan2f returns -3.1415925 for it, and likewise 3.1415925 for the point made
\* from -(float)M_PI.  Those two thetas then come back unchanged.
XYtoRT(xy) ==
    CASE xy.y = 0 /\ xy.x >= 0 ->
             [radius |-> xy.x \div XYScale, theta |-> 0, id |-> xy.id]
      [] xy.y = 0 /\ xy.x < 0 ->
             [radius |-> (0 - xy.x) \div XYScale, theta |-> Pi, id |-> xy.id]
      [] xy.x = 0 /\ xy.y > 0 ->
             [radius |-> xy.y \div XYScale, theta |-> HalfPi, id |-> xy.id]
      [] xy.x = 0 /\ xy.y < 0 ->
             [radius |-> (0 - xy.y) \div XYScale, theta |-> 0 - HalfPi,
              id |-> xy.id]
      [] OTHER ->
             LET g == CHOOSE g \in [radius : RadiusInputs, theta : TabThetas] :
                          /\ CosTab(g.radius, g.theta) = xy.x
                          /\ SinTab(g.radius, g.theta) = xy.y
             IN  [radius |-> g.radius,
                  theta |-> IF g.theta = Pi THEN 0 - PiBelow
                            ELSE IF g.theta = 0 - Pi THEN PiBelow
                            ELSE g.theta,
                  id |-> xy.id]

\* RTtoXY: x = radius * cosf(theta), y = radius * sinf(theta)
RTtoXY(rt) ==
    [x |-> CosTab(rt.radius, rt.theta), y |-> SinTab(rt.radius, rt.theta),
     id |-> rt.id]

\* a conversion loop that starts one element late
scanXYtoRTSkipsFirst(input_scan_xy) ==
    [i \in 1..(Len(input_scan_xy) - 1) |-> XYtoRT(input_scan_xy[i + 1])]

scanXYtoRT(input_scan_xy) ==
    [i \in 1..Len(input_scan_xy) |-> XYtoRT(input_scan_xy[i])]

\* a conversion that fills the output back to front
scanRTtoXYReversed(input_scan_rt) ==
    [i \in 1..Len(input_scan_rt) |->
        RTtoXY(input_scan_rt[Len(input_scan_rt) + 1 - i])]

scanRTtoXY(input_scan_rt) ==
    [i \in 1..Len(input_scan_rt) |-> RTtoXY(input_scan_rt[i])]

\* ---- sorting ----
IsSorted(s) == \A i \in 1..Len(s) : \A j \in 1..Len(s) :
                  i < j => s[i].theta <= s[j].theta

PermsOf(n) == {p \in [1..n -> 1..n] : \A i \in 1..n : \A j \in 1..n :
                  p[i] = p[j] => i = j}

\* a sort with the comparator turned around
thetaDescendingSort(scan_rt) ==
    {t \in {[i \in 1..Len(scan_rt) |-> scan_rt[p[i]]] : p \in PermsOf(Len(scan_rt))} :
        \A i \in 1..Len(t) : \A j \in 1..Len(t) : i < j => t[i].theta >= t[j].theta}

\* a sort that leaves the vector as it is
thetaSortSkipped(scan_rt) == {scan_rt}

\* std::sort with comparator first.theta < second.theta: every ascending
\* arrangement is a possible result (the order of equal thetas is unspecified)
thetaAscendingSortScanRT(scan_rt) ==
    {t \in {[i \in 1..Len(scan_rt) |-> scan_rt[p[i]]] : p \in PermsOf(Len(scan_rt))} :
        IsSorted(t)}

\* ---- smoothing ----
\* first while loop: j from i down to index 1, stop at the first sample
\* farther than delta_theta from theta
RECURSIVE LeftScan(_, _, _, _)
LeftScan(scan_rt_copy, theta, j, r) ==
    IF j < 1 THEN r
    ELSE IF Abs(scan_rt_copy[j].theta - theta) > DeltaTheta THEN r
    ELSE LeftScan(scan_rt_copy, theta, j - 1, fmin(r, scan_rt_copy[j].radius))

\* second while loop: j from i up to the last index
RECURSIVE RightScan(_, _, _, _)
RightScan(scan_rt_copy, theta, j, r) ==
    IF j > Len(scan_rt_copy) THEN r
    ELSE IF Abs(scan_rt_copy[j].theta - theta) > DeltaTheta THEN r
    ELSE RightScan(scan_rt_copy, theta, j + 1, fmin(r, scan_rt_copy[j].radius))

\* the for loop reading the vector it writes instead of the copy
RECURSIVE SmoothInPlace(_, _, _)
SmoothInPlace(scan_rt, scan_rt_copy, i) ==
    IF i > Len(scan_rt) THEN scan_rt
    ELSE SmoothInPlace(
            [scan_rt EXCEPT ![i].radius =
                RightScan(scan_rt, scan_rt[i].theta, i,
                    LeftScan(scan_rt, scan_rt[i].theta, i, scan_rt[i].radius))],
            scan_rt_copy, i + 1)

\* the for loop from index i on: scan_rt is written, scan_rt_copy is read
RECURSIVE SmoothFrom(_, _, _)
SmoothFrom(scan_rt, scan_rt_copy, i) ==
    IF i > Len(scan_rt_copy) THEN scan_rt
    ELSE SmoothFrom(
            [scan_rt EXCEPT ![i].radius =
                RightScan(scan_rt_copy, scan_rt[i].theta, i,
                    LeftScan(scan_rt_copy, scan_rt[i].theta, i, scan_rt[i].radius))],
            scan_rt_copy, i + 1)

compute_smallest_r_within_delta_theta(scan_rt) == SmoothFrom(scan_rt, scan_rt, 1)

\* ---- the last call, for stating properties ----
\* radius and theta of every sample, in order
Vals(s) == [i \in 1..Len(s) |-> [radius |-> s[i].radius, theta |-> s[i].theta]]

\* the sample of s that was inserted k-th
ById(s, k) == s[CHOOSE i \in 1..Len(s) : s[i].id = k]

\* the flag once getScanRT has converted or not: a conversion marks the polar
\* vector unsorted; here the flag is kept through a conversion
SortedAfterConvertKept(converted, sorted) == sorted

SortedAfterConvert(converted, sorted) == IF converted THEN FALSE ELSE sorted

\* A second frame, for a specification that starts in mode "twin": built by
\* the default constructor with the other value of the flag, and taken through
\* the same calls with the same arguments.  TwinStep is the call's effect on
\* that frame (xy, rt, sorted) and the value it returns there (ret).  The code
\* is deterministic, std::sort included: where a getter finds the second frame
\* equal to the first in all it reads, it does to the second what it did to
\* the first.
TwinStep(name, arg) ==
    LET t == op.twin
    IN  CASE name = "getScanXY" ->
                 IF t.xy = scan_xy_ /\ t.rt = scan_rt_
                 THEN [t EXCEPT !.xy = scan_xy_', !.ret = scan_xy_']
                 ELSE LET xy == IF t.xy = <<>> /\ t.rt # <<>>
                                THEN scanRTtoXY(t.rt) ELSE t.xy
                      IN  [t EXCEPT !.xy = xy, !.ret = xy]
          [] name = "getScanRT" ->
                 IF t.xy = scan_xy_ /\ t.rt = scan_rt_ /\ t.sorted = sorted_by_theta_
                 THEN [xy |-> t.xy, rt |-> scan_rt_',
                       sorted |-> sorted_by_theta_', ret |-> scan_rt_']
                 ELSE LET converted == t.rt = <<>> /\ t.xy # <<>>
                          rt1 == IF converted THEN scanXYtoRT(t.xy) ELSE t.rt
                          s1 == SortedAfterConvert(converted, t.sorted)
                          sorting == arg /\ ~s1
                          rt2 == IF sorting
                                 THEN CHOOSE q \in thetaAscendingSortScanRT(rt1) : TRUE
                                 ELSE rt1
                          rt3 == compute_smallest_r_within_delta_theta(rt2)
                      IN  [xy |-> t.xy, rt |-> rt3,
                           sorted |-> IF sorting THEN TRUE ELSE s1, ret |-> rt3]
          [] name = "setScanXY" ->
                 [xy |-> scan_xy_', rt |-> <<>>, sorted |-> t.sorted, ret |-> <<>>]
          [] name = "setScanRT" ->
                 [xy |-> <<>>, rt |-> scan_rt_', sorted |-> arg, ret |-> <<>>]
          [] name = "scan_size" ->
                 [t EXCEPT !.ret = <<IF t.xy = <<>> THEN Len(t.rt) ELSE Len(t.xy)>>]
          [] name = "scan_clear" ->
                 [xy |-> <<>>, rt |-> <<>>, sorted |-> FALSE, ret |-> <<>>]
          [] name = "scan_xy_push_back" ->
                 LET xy == scan_xy_'[Len(scan_xy_')]
                 IN  [xy |-> Append(t.xy, [x |-> xy.x, y |-> xy.y,
                                           id |-> Len(t.xy) + 1]),
                      rt |-> <<>>, sorted |-> FALSE, ret |-> <<>>]
          [] name = "scan_rt_push_back" ->
                 LET rt == scan_rt_'[Len(scan_rt_')]
                 IN  [xy |-> <<>>,
                      rt |-> Append(t.rt, [radius |-> rt.radius, theta |-> rt.theta,
                                           id |-> Len(t.rt) + 1]),
                      sorted |-> arg, ret |-> <<>>]
          [] OTHER -> [t EXCEPT !.ret = <<>>]

\* name and argument of the call and what the call found (pre_*).  A
\* specification that starts in mode "run" also records whether the call before
\* was a getScanRT (after_get) and how many getScanRT(true) calls in a row end
\* with this one (run, counted up to MaxLen + 2).  One that starts in mode
\* "trip" records the samples last written with setScanXY (sent) and how far
\* the calls since then have gone along setScanXY, getScanRT, setScanRT of what
\* that returned, getScanXY (stage 1 to 4; 0 off that path).  One that starts
\* in mode "writes" records the sizes the two vectors would have had the same
\* constructor and writes been run with no getScanXY or getScanRT between them
\* (w_xy, w_rt).  One that starts in mode "twin" carries the second frame
\* (twin) and the flag the call found there (twin_pre_sorted).
Call(name, arg) ==
    [name |-> name, arg |-> arg,
     pre_xy |-> scan_xy_ # <<>>, pre_rt |-> scan_rt_ # <<>>,
     pre_sorted |-> sorted_by_theta_,
     mode |-> op.mode,
     after_get |-> (op.mode = "run" /\ op.name = "getScanRT"),
     run |-> IF op.mode = "run" /\ name = "getScanRT" /\ arg = TRUE
             THEN (IF op.run < MaxLen + 2 THEN op.run + 1 ELSE op.run)
             ELSE 0,
     sent |-> IF op.mode # "trip" THEN <<>>
              ELSE IF name = "setScanXY" THEN scan_xy_' ELSE op.sent,
     stage |-> IF op.mode # "trip" THEN 0
               ELSE IF name = "setScanXY" THEN 1
               ELSE IF name = "getScanRT" /\ op.stage = 1 THEN 2
               ELSE IF name = "setScanRT" /\ op.stage = 2 THEN
                        (IF Vals(scan_rt_') = Vals(ret) THEN 3 ELSE 0)
               ELSE IF name = "getScanXY" /\ op.stage = 3 THEN 4
               ELSE 0,
     w_xy |-> IF op.mode # "writes" THEN 0
              ELSE CASE name = "setScanXY" -> Len(scan_xy_')
                     [] name = "scan_xy_push_back" -> op.w_xy + 1
                     [] name \in {"setScanRT", "scan_rt_push_back", "scan_clear"} -> 0
                     [] OTHER -> op.w_xy,
     w_rt |-> IF op.mode # "writes" THEN 0
              ELSE CASE name = "setScanRT" -> Len(scan_rt_')
                     [] name = "scan_rt_push_back" -> op.w_rt + 1
                     [] name \in {"setScanXY", "scan_xy_push_back", "scan_clear"} -> 0
                     [] OTHER -> op.w_rt,
     twin |-> IF op.mode = "twin" THEN TwinStep(name, arg) ELSE <<>>,
     twin_pre_sorted |-> IF op.mode = "twin" THEN op.twin.sorted ELSE FALSE]

scan_size_value == IF scan_xy_ = <<>> THEN Len(scan_rt_) ELSE Len(scan_xy_)

\* ---- constructors ----
ConstructedIn(name, mode) ==
    [name |-> name, arg |-> FALSE, pre_xy |-> FALSE, pre_rt |-> FALSE,
     pre_sorted |-> FALSE, mode |-> mode, after_get |-> FALSE, run |-> 0,
     sent |-> <<>>, stage |-> 0,
     w_xy |-> IF mode = "writes" THEN Len(scan_xy_) ELSE 0,
     w_rt |-> IF mode = "writes" THEN Len(scan_rt_) ELSE 0,
     twin |-> IF mode = "twin"
              THEN [xy |-> scan_xy_, rt |-> scan_rt_,
                    sorted |-> ~sorted_by_theta_, ret |-> <<>>]
              ELSE <<>>,
     twin_pre_sorted |-> FALSE]

\* ScanMessage(): sorted_by_theta_ has no initializer
InitDefaultIn(mode) ==
    /\ scan_xy_ = <<>>
    /\ scan_rt_ = <<>>
    /\ sorted_by_theta_ \in BOOLEAN
    /\ op = ConstructedIn("ScanMessage", mode)
    /\ ret = <<>>

\* ScanMessage(tp)
InitTimePointIn(mode) ==
    /\ scan_xy_ = <<>>
    /\ scan_rt_ = <<>>
    /\ sorted_by_theta_ = FALSE
    /\ op = ConstructedIn("ScanMessage_tp", mode)
    /\ ret = <<>>

\* ScanMessage(input_scan_xy), ScanMessage(input_scan_xy, tp)
InitXYIn(mode) ==
    \E input \in SeqsUpTo(CartesianInputs, MaxLen) :
        /\ scan_xy_ = TagXY(input)
        /\ scan_rt_ = <<>>
        /\ sorted_by_theta_ = FALSE
        /\ op = ConstructedIn("ScanMessage_xy", mode)
        /\ ret = <<>>

\* ScanMessage(input_scan_rt), ScanMessage(input_scan_rt, tp)
InitRTIn(mode) ==
    \E input \in SeqsUpTo(PolarInputs, MaxLen) :
        /\ scan_xy_ = <<>>
        /\ scan_rt_ = TagRT(input)
        /\ sorted_by_theta_ = FALSE
        /\ op = ConstructedIn("ScanMessage_rt", mode)
        /\ ret = <<>>

InitIn(mode) ==
    InitDefaultIn(mode) \/ InitTimePointIn(mode) \/ InitXYIn(mode) \/ InitRTIn(mode)

InitDefault == InitDefaultIn("plain")
InitTimePoint == InitTimePointIn("plain")
InitXY == InitXYIn("plain")
InitRT == InitRTIn("plain")

Init == InitDefault \/ InitTimePoint \/ InitXY \/ InitRT

\* ---- operations ----
getScanXY ==
    /\ scan_xy_' = IF scan_xy_ = <<>> /\ scan_rt_ # <<>>
                   THEN scanRTtoXY(scan_rt_) ELSE scan_xy_
    /\ ret' = scan_xy_'
    /\ op' = Call("getScanXY", FALSE)
    /\ UNCHANGED <<scan_rt_, sorted_by_theta_>>

\* getScanRT with the smoothing step run twice in one call
getScanRT_smooths_twice(need_sort) ==
    LET converted == scan_rt_ = <<>> /\ scan_xy_ # <<>>
        rt1 == IF converted THEN scanXYtoRT(scan_xy_) ELSE scan_rt_
        s1 == SortedAfterConvert(converted, sorted_by_theta_)
        sorting == need_sort /\ ~s1
    IN  \E rt2 \in (IF sorting THEN thetaAscendingSortScanRT(rt1) ELSE {rt1}) :
            /\ scan_rt_' = compute_smallest_r_within_delta_theta(
                               compute_smallest_r_within_delta_theta(rt2))
            /\ sorted_by_theta_' = (IF sorting THEN TRUE ELSE s1)
            /\ ret' = scan_rt_'
            /\ op' = Call("getScanRT", need_sort)
            /\ UNCHANGED scan_xy_

\* getScanRT that converts without marking the result unsorted
getScanRT_keeps_flag(need_sort) ==
    LET converted == scan_rt_ = <<>> /\ scan_xy_ # <<>>
        rt1 == IF converted THEN scanXYtoRT(scan_xy_) ELSE scan_rt_
        s1 == sorted_by_theta_
        sorting == need_sort /\ ~s1
    IN  \E rt2 \in (IF sorting THEN thetaAscendingSortScanRT(rt1) ELSE {rt1}) :
            /\ scan_rt_' = compute_smallest_r_within_delta_theta(rt2)
            /\ sorted_by_theta_' = (IF sorting THEN TRUE ELSE s1)
            /\ ret' = scan_rt_'
            /\ op' = Call("getScanRT", need_sort)
            /\ UNCHANGED scan_xy_

getScanRT(need_sort) ==
    LET converted == scan_rt_ = <<>> /\ scan_xy_ # <<>>
        rt1 == IF converted THEN scanXYtoRT(scan_xy_) ELSE scan_rt_
        s1 == SortedAfterConvert(converted, sorted_by_theta_)
        sorting == need_sort /\ ~s1
    IN  \E rt2 \in (IF sorting THEN thetaAscendingSortScanRT(rt1) ELSE {rt1}) :
            /\ scan_rt_' = compute_smallest_r_within_delta_theta(rt2)
            /\ sorted_by_theta_' = (IF sorting THEN TRUE ELSE s1)
            /\ ret' = scan_rt_'
            /\ op' = Call("getScanRT", need_sort)
            /\ UNCHANGED scan_xy_

setScanXY(input_scan_xy) ==
    /\ scan_xy_' = TagXY(input_scan_xy)
    /\ scan_rt_' = <<>>
    /\ ret' = <<>>
    /\ op' = Call("setScanXY", FALSE)
    /\ UNCHANGED sorted_by_theta_

setScanRT(input_scan_rt, is_sorted) ==
    /\ scan_rt_' = TagRT(input_scan_rt)
    /\ scan_xy_' = <<>>
    /\ sorted_by_theta_' = is_sorted
    /\ ret' = <<>>
    /\ op' = Call("setScanRT", is_sorted)

scan_size ==
    /\ ret' = <<scan_size_value>>
    /\ op' = Call("scan_size", FALSE)
    /\ UNCHANGED <<scan_xy_, scan_rt_, sorted_by_theta_>>

\* a clear that forgets the polar vector
scan_clear_keeps_rt ==
    /\ scan_xy_' = <<>>
    /\ sorted_by_theta_' = FALSE
    /\ ret' = <<>>
    /\ op' = Call("scan_clear", FALSE)
    /\ UNCHANGED scan_rt_

scan_clear ==
    /\ scan_xy_' = <<>>
    /\ scan_rt_' = <<>>
    /\ sorted_by_theta_' = FALSE
    /\ ret' = <<>>
    /\ op' = Call("scan_clear", FALSE)

scan_reserve ==
    /\ ret' = <<>>
    /\ op' = Call("scan_reserve", FALSE)
    /\ UNCHANGED <<scan_xy_, scan_rt_, sorted_by_theta_>>

\* a push_back that forgets to clear the polar vector
scan_xy_push_back_keeps_rt(xy) ==
    /\ Len(scan_xy_) < MaxLen
    /\ scan_xy_' = Append(scan_xy_, [x |-> xy.x, y |-> xy.y, id |-> Len(scan_xy_) + 1])
    /\ ret' = <<>>
    /\ op' = Call("scan_xy_push_back", FALSE)
    /\ UNCHANGED <<scan_rt_, sorted_by_theta_>>

scan_xy_push_back(xy) ==
    /\ Len(scan_xy_) < MaxLen
    /\ scan_xy_' = Append(scan_xy_, [x |-> xy.x, y |-> xy.y, id |-> Len(scan_xy_) + 1])
    /\ scan_rt_' = <<>>
    /\ sorted_by_theta_' = FALSE
    /\ ret' = <<>>
    /\ op' = Call("scan_xy_push_back", FALSE)

\* a push_back that leaves the flag as it was
scan_rt_push_back_keeps_flag(rt, in_order) ==
    /\ Len(scan_rt_) < MaxLen
    /\ scan_rt_' = Append(scan_rt_,
            [radius |-> rt.radius, theta |-> rt.theta, id |-> Len(scan_rt_) + 1])
    /\ scan_xy_' = <<>>
    /\ ret' = <<>>
    /\ op' = Call("scan_rt_push_back", in_order)
    /\ UNCHANGED sorted_by_theta_

scan_rt_push_back(rt, in_order) ==
    /\ Len(scan_rt_) < MaxLen
    /\ scan_rt_' = Append(scan_rt_,
            [radius |-> rt.radius, theta |-> rt.theta, id |-> Len(scan_rt_) + 1])
    /\ scan_xy_' = <<>>
    /\ sorted_by_theta_' = in_order
    /\ ret' = <<>>
    /\ op' = Call("scan_rt_push_back", in_order)

DoGetScanRT == \E need_sort \in BOOLEAN : getScanRT(need_sort)
DoSetScanXY == \E input \in SeqsUpTo(CartesianInputs, MaxInputLen) : setScanXY(input)
DoSetScanRT == \E input \in SeqsUpTo(VectorPolarInputs, MaxInputLen) :
                   \E is_sorted \in BOOLEAN : setScanRT(input, is_sorted)
DoPushXY == \E xy \in CartesianInputs : scan_xy_push_back(xy)
DoPushRT == \E rt \in PolarInputs : \E in_order \in BOOLEAN :
                scan_rt_push_back(rt, in_order)

Next ==
    \/ getScanXY
    \/ DoGetScanRT
    \/ DoSetScanXY
    \/ DoSetScanRT
    \/ scan_size
    \/ scan_clear
    \/ scan_reserve
    \/ DoPushXY
    \/ DoPushRT

Spec == Init /\ [][Next]_vars

\* ---- callers whose assertions are true ----
\* setScanRT is told is_sorted only of a vector sorted ascending by theta, and
\* scan_rt_push_back is told in_order only of a theta that is not below the
\* theta of the last polar sample
TruthfulSetScanRT ==
    \E input \in SeqsUpTo(VectorPolarInputs, MaxInputLen) : \E is_sorted \in BOOLEAN :
        /\ is_sorted => IsSorted(input)
        /\ setScanRT(input, is_sorted)
TruthfulPushRT ==
    \E rt \in PolarInputs : \E in_order \in BOOLEAN :
        /\ in_order =>
              (IF scan_rt_ = <<>> THEN TRUE ELSE scan_rt_[Len(scan_rt_)].theta <= rt.theta)
        /\ scan_rt_push_back(rt, in_order)

NextTruthful ==
    \/ getScanXY
    \/ DoGetScanRT
    \/ DoSetScanXY
    \/ TruthfulSetScanRT
    \/ scan_size
    \/ scan_clear
    \/ scan_reserve
    \/ DoPushXY
    \/ TruthfulPushRT

SpecTruthful == Init /\ [][NextTruthful]_vars

\* ---- callers that never assert anything ----
\* setScanRT and scan_rt_push_back with their second argument left false
UnassertedSetScanRT ==
    \E input \in SeqsUpTo(VectorPolarInputs, MaxInputLen) : setScanRT(input, FALSE)
UnassertedPushRT == \E rt \in PolarInputs : scan_rt_push_back(rt, FALSE)

NextUnasserted ==
    \/ getScanXY
    \/ DoGetScanRT
    \/ DoSetScanXY
    \/ UnassertedSetScanRT
    \/ scan_size
    \/ scan_clear
    \/ scan_reserve
    \/ DoPushXY
    \/ UnassertedPushRT

SpecUnasserted == Init /\ [][NextUnasserted]_vars

\* ---- getScanRT called again and again ----
NextRepeat ==
    \/ DoGetScanRT
    \/ getScanXY
    \/ scan_clear
    \/ DoPushXY
    \/ DoPushRT

SpecRepeat == InitIn("run") /\ [][NextRepeat]_vars

\* ---- a frame sent through polar form and back ----
\* setScanRT called with the sequence the getScanRT just before it returned
SetScanRTReturned ==
    /\ op.name = "getScanRT"
    /\ \E is_sorted \in BOOLEAN : setScanRT(Vals(ret), is_sorted)

\* setScanXY with a frame as long as a constructor may take
DoSetScanXYFrame == \E input \in SeqsUpTo(CartesianInputs, MaxLen) : setScanXY(input)

NextTrip ==
    \/ DoSetScanXYFrame
    \/ DoGetScanRT
    \/ SetScanRTReturned
    \/ getScanXY

SpecTrip == InitIn("trip") /\ [][NextTrip]_vars

\* ---- the same writes with and without reads between them ----
SpecWrites == InitIn("writes") /\ [][Next]_vars

\* ---- the default constructor with either value of the flag ----
SpecTwin == InitDefaultIn("twin") /\ [][Next]_vars

\* ---- frames with samples on both sides of the cut at +pi/-pi ----
WrapThetas == {0 - Pi, 0, Pi}

\* ScanMessage(input_scan_rt) with bearings at the cut
InitWrap ==
    \E input \in SeqsUpTo([radius : RadiusInputs, theta : WrapThetas], MaxLen) :
        /\ scan_xy_ = <<>>
        /\ scan_rt_ = TagRT(input)
        /\ sorted_by_theta_ = FALSE
        /\ op = ConstructedIn("ScanMessage_rt", "plain")
        /\ ret = <<>>

SpecWrap == InitWrap /\ [][NextRepeat]_vars

\* ---- navigation status names ----
\* enum class NaviStatus
NORMAL == 0
LOST == 1
OBSTACLE_AVOID == 2
STOP == 3
STANDBY == 4
MANUAL == 5
LOST_RECOVERY == 6
NaviStatus == {NORMAL, LOST, OBSTACLE_AVOID, STOP, STANDBY, MANUAL, LOST_RECOVERY}

NaviStatusToString(navi_status) ==
    IF navi_status = NORMAL THEN "NORNAL"
    ELSE IF navi_status = LOST THEN "LOST"
    ELSE IF navi_status = LOST_RECOVERY THEN "LOST_RECOVERY"
    ELSE IF navi_status = OBSTACLE_AVOID THEN "OBSTACLE_AVOID"
    ELSE IF navi_status = STOP THEN "STOP"
    ELSE IF navi_status = STANDBY THEN "STANDBY"
    ELSE "unknown"

\* a caller asks for the name of a status; the frame it holds is not touched
CallNaviStatusToString(navi_status) ==
    /\ ret' = <<NaviStatusToString(navi_status)>>
    /\ op' = Call("NaviStatusToString", navi_status)
    /\ UNCHANGED <<scan_xy_, scan_rt_, sorted_by_theta_>>

NextNavi == \E navi_status \in NaviStatus : CallNaviStatusToString(navi_status)

SpecNavi == Init /\ [][NextNavi]_vars

\* ---- properties ----
BothPopulated == scan_xy_ # <<>> /\ scan_rt_ # <<>>
Thetas(s) == [i \in 1..Len(s) |-> s[i].theta]
SetMin(S) == CHOOSE m \in S : \A x \in S : m <= x
\* the smallest radius among the samples of s within delta_theta of theta
WindowMin(s, theta) ==
    SetMin({s[j].radius : j \in {j \in 1..Len(s) : Abs(s[j].theta - theta) <= DeltaTheta}})
\* no two samples of s within delta_theta of each other
WellSeparated(s) == \A i \in 1..Len(s) : \A j \in 1..Len(s) :
                        i # j => Abs(s[i].theta - s[j].theta) > DeltaTheta

\* C1: right after setScanXY, setScanRT, scan_xy_push_back or scan_rt_push_back
\* the two vectors are never both non-empty, and after a push_back exactly one
\* of them is non-empty.
C1_WriteLeavesOneVector ==
    /\ op.name \in {"setScanXY", "setScanRT", "scan_xy_push_back", "scan_rt_push_back"}
          => ~BothPopulated
    /\ op.name \in {"scan_xy_push_back", "scan_rt_push_back"}
          => (scan_xy_ # <<>>) # (scan_rt_ # <<>>)

\* a push_back onto a frame that a getter had left with both vectors populated
C1_Witness ==
    /\ op.name = "scan_xy_push_back"
    /\ op.pre_xy /\ op.pre_rt
    /\ Len(scan_xy_) >= 2
    /\ scan_rt_ = <<>>

\* C2 (as claimed): from any reachable state getScanRT(true) returns a vector
\* sorted ascending by theta and leaves sorted_by_theta_ true.
C2_SortedFromAnyState ==
    (op.name = "getScanRT" /\ op.arg) => (IsSorted(ret) /\ sorted_by_theta_)

\* C2 (amended): getScanRT(true) leaves sorted_by_theta_ true; the vector it
\* returns is sorted ascending by theta whenever, as the call began, the flag
\* was false, the polar vector was empty or the polar vector was sorted; a
\* getScanRT(true) right after a getScanRT(true) finds the flag true, so it
\* does not sort, and returns the thetas in the same order.
C2_SortedUnlessFlagWrong ==
    [][(op'.name = "getScanRT" /\ op'.arg) =>
          /\ sorted_by_theta_'
          /\ (~sorted_by_theta_ \/ scan_rt_ = <<>> \/ IsSorted(scan_rt_))
                => IsSorted(ret')
          /\ (op.name = "getScanRT" /\ op.arg)
                => (sorted_by_theta_ /\ Thetas(ret') = Thetas(ret))]_vars

\* getScanRT(true) has sorted a stored polar vector that was out of order
C2_Witness ==
    /\ op.name = "getScanRT" /\ op.arg
    /\ op.pre_rt /\ ~op.pre_sorted
    /\ Len(ret) >= 2
    /\ ret[1].theta < ret[2].theta
    /\ ret[1].id > ret[2].id
    /\ sorted_by_theta_

\* C3: a smoothing pass over a polar vector sorted ascending by theta gives
\* every sample the smallest pre-pass radius among the samples (itself
\* included) whose theta is within delta_theta of its own, bound included,
\* and leaves every theta as it was.
C3_WindowMinimum ==
    [][(op'.name = "getScanRT" /\ scan_rt_ # <<>> /\ IsSorted(scan_rt_')) =>
          /\ Len(scan_rt_') = Len(scan_rt_)
          /\ \A i \in 1..Len(scan_rt_') :
                LET old == ById(scan_rt_, scan_rt_'[i].id)
                IN  /\ scan_rt_'[i].theta = old.theta
                    /\ scan_rt_'[i].radius = WindowMin(scan_rt_, old.theta)]_vars

\* one pass over thetas 0, delta_theta and 1.5 delta_theta with radii 1, 2, 2:
\* the last sample keeps its radius, since the sample at 0 is outside its
\* window and the sample at delta_theta had
\* radius 2 before the pass
C3_Witness ==
    /\ op.name = "getScanRT"
    /\ op.pre_rt
    /\ Len(ret) = 3
    /\ Thetas(ret) = <<0, DeltaTheta, DeltaTheta + DeltaTheta \div 2>>
    /\ ret[1].radius = 1 /\ ret[2].radius = 1 /\ ret[3].radius = 2

\* the radius a sample held before a getScanRT call: the stored polar radius,
\* or the radius of the Cartesian sample it is derived from
RadiusBefore(k) ==
    IF scan_rt_ # <<>> THEN ById(scan_rt_, k).radius
    ELSE XYtoRT(ById(scan_xy_, k)).radius

\* C4: every getScanRT call returns, for each sample, a radius not above the
\* radius that sample held as the call began.
C4_NeverIncreasesRadius ==
    [][op'.name = "getScanRT" =>
          \A i \in 1..Len(ret') : ret'[i].radius <= RadiusBefore(ret'[i].id)]_vars

\* getScanRT(false) on polar data that is out of order, with two radii
C4_Witness ==
    /\ op.name = "getScanRT" /\ ~op.arg
    /\ Len(ret) = 3
    /\ ~IsSorted(ret)
    /\ \E i \in 1..3 : \E j \in 1..3 : ret[i].radius < ret[j].radius

\* C5 (as claimed): whenever both vectors are non-empty, the Cartesian sample
\* and the polar sample at each index stem from the same inserted sample (or
\* from inserted samples with the same coordinates, which no caller can tell
\* apart).
C5_IndicesCorrespond ==
    BothPopulated =>
        /\ Len(scan_xy_) = Len(scan_rt_)
        /\ \A i \in 1..Len(scan_xy_) :
              LET c == ById(scan_xy_, scan_rt_[i].id)
              IN  c.x = scan_xy_[i].x /\ c.y = scan_xy_[i].y

\* C6 (as claimed): when every caller assertion is true, sorted_by_theta_
\* implies that the polar vector is sorted ascending by theta.
C6_FlagImpliesSorted == sorted_by_theta_ => IsSorted(scan_rt_)

\* C7: on polar samples in any order, no two within delta_theta of each other
\* and not declared sorted, getScanRT(true) returns the same samples, radii
\* unchanged, in ascending order of theta.
C7_SortedPermutation ==
    [][(/\ op'.name = "getScanRT" /\ op'.arg
        /\ scan_rt_ # <<>>
        /\ ~sorted_by_theta_
        /\ WellSeparated(scan_rt_)) =>
          /\ IsSorted(ret')
          /\ Len(ret') = Len(scan_rt_)
          /\ {ret'[i] : i \in 1..Len(ret')} = {scan_rt_[i] : i \in 1..Len(scan_rt_)}]_vars

\* two samples, constructed with the larger theta first, returned in
\* ascending order with their different radii
C7_Witness ==
    /\ op.name = "getScanRT" /\ op.arg
    /\ op.pre_rt /\ ~op.pre_xy /\ ~op.pre_sorted
    /\ Len(ret) = 2
    /\ WellSeparated(ret)
    /\ ret[1].id = 2 /\ ret[2].id = 1
    /\ ret[1].radius # ret[2].radius

\* C8: on a frame with both vectors empty, and on a frame just cleared,
\* getScanXY and getScanRT return an empty vector and leave both vectors
\* empty.
C8_EmptyFrameGetters ==
    [][(/\ op'.name \in {"getScanXY", "getScanRT"}
        /\ (scan_xy_ = <<>> /\ scan_rt_ = <<>>) \/ op.name = "scan_clear") =>
          (ret' = <<>> /\ scan_xy_' = <<>> /\ scan_rt_' = <<>>)]_vars

\* getScanRT(true) has returned from an empty frame
C8_Witness ==
    /\ op.name = "getScanRT" /\ op.arg
    /\ ~op.pre_xy /\ ~op.pre_rt
    /\ ret = <<>>
    /\ scan_xy_ = <<>> /\ scan_rt_ = <<>>

\* C9: getScanXY on an empty Cartesian vector and a non-empty polar vector
\* returns one Cartesian sample per polar sample, element i converted from
\* polar element i, stores it, and leaves the polar vector and the flag as
\* they were; on a non-empty Cartesian vector it changes nothing.
C9_GetScanXYEffect ==
    [][op'.name = "getScanXY" =>
          IF scan_xy_ = <<>> /\ scan_rt_ # <<>>
          THEN /\ Len(ret') = Len(scan_rt_)
               /\ \A i \in 1..Len(ret') : ret'[i] = RTtoXY(scan_rt_[i])
               /\ scan_xy_' = ret'
               /\ UNCHANGED <<scan_rt_, sorted_by_theta_>>
          ELSE /\ ret' = scan_xy_
               /\ UNCHANGED <<scan_xy_, scan_rt_, sorted_by_theta_>>]_vars

\* getScanXY has converted three polar samples, the first and last of them
\* different
C9_Witness ==
    /\ op.name = "getScanXY"
    /\ ~op.pre_xy /\ op.pre_rt
    /\ Len(ret) = 3
    /\ Len(scan_rt_) = 3
    /\ ret[1].x # ret[3].x

\* C10: when both vectors are non-empty they have the same length, so
\* scan_size is the length of every non-empty vector, and neither getScanXY nor
\* getScanRT changes what scan_size returns.
C10_SizeUnambiguous ==
    /\ [](BothPopulated => Len(scan_xy_) = Len(scan_rt_))
    /\ [][op'.name \in {"getScanXY", "getScanRT"} =>
              scan_size_value' = scan_size_value]_vars

\* scan_size has answered on a frame with both vectors populated
C10_Witness ==
    /\ op.name = "scan_size"
    /\ BothPopulated
    /\ ret = <<2>>
    /\ Len(scan_rt_) = 2

\* C11 (as claimed): NaviStatusToString never returns "unknown" for a value of
\* the enumeration.
C11_EveryStatusNamed ==
    op.name = "NaviStatusToString" => ret # <<"unknown">>

\* C12 (as claimed): of two getScanRT calls in a row, the second returns one
\* smoothing pass applied to what the first returned.
C12_NextIsOnePassOfPrevious ==
    [][(op.name = "getScanRT" /\ op'.name = "getScanRT")
       => Vals(ret') = Vals(compute_smallest_r_within_delta_theta(ret))]_vars

\* C12 (amended): every getScanRT call on a frame with polar samples returns the
\* stored sequence, which is one smoothing pass applied to the sequence the call
\* found, sorted first when need_sort is true and the flag is false; so the
\* second of two calls in a row returns one pass of what the first returned,
\* or of an ascending arrangement of it when the second call sorts.
C12_OnePassAfterOptionalSort ==
    [][(op'.name = "getScanRT" /\ scan_rt_ # <<>>)
       => /\ ret' = scan_rt_'
          /\ IF op'.arg /\ ~sorted_by_theta_
             THEN \E q \in thetaAscendingSortScanRT(scan_rt_) :
                      ret' = compute_smallest_r_within_delta_theta(q)
             ELSE ret' = compute_smallest_r_within_delta_theta(scan_rt_)
          /\ op.name = "getScanRT" => scan_rt_ = ret]_vars

\* a second getScanRT in a row, which sorted what the first one returned
C12_Witness ==
    /\ op.name = "getScanRT"
    /\ op.after_get
    /\ op.arg
    /\ ~op.pre_sorted
    /\ Len(ret) = 3
    /\ \E i \in 1..3 : ret[i].id # i

\* C13: of two getScanRT(true) calls in a row the second returns the same samples
\* in the same order, none with a larger radius than the first returned; and
\* once as many getScanRT(true) calls in a row as the frame has samples have
\* been made, the next one returns exactly what the last one returned.
C13_RepeatedCallsConverge ==
    [][(op.name = "getScanRT" /\ op.run >= 1
            /\ op'.name = "getScanRT" /\ op'.arg = TRUE)
       => /\ Len(ret') = Len(ret)
          /\ \A i \in 1..Len(ret) :
                /\ ret'[i].id = ret[i].id
                /\ ret'[i].theta = ret[i].theta
                /\ ret'[i].radius <= ret[i].radius
          /\ op.run >= Len(ret) => ret' = ret]_vars

\* more getScanRT(true) calls in a row than the frame has samples, on three
\* samples that are neighbours in a chain (the first and the last are not within delta_theta)
C13_Witness ==
    /\ op.name = "getScanRT"
    /\ op.run = MaxLen + 1
    /\ Len(ret) = MaxLen
    /\ \E i \in 1..Len(ret) : \E j \in 1..Len(ret) :
           Abs(ret[i].theta - ret[j].theta) > DeltaTheta
    /\ \A i \in 1..Len(ret) : ret[i].radius = 1

\* one millionth of a unit of length
Tolerance == XYScale \div 1000000

\* q is p to within the tolerance, relative to radius r
Close(q, p, r) ==
    /\ Abs(q.x - p.x) <= r * Tolerance
    /\ Abs(q.y - p.y) <= r * Tolerance

\* C14 (as claimed): once a frame holds both forms, every Cartesian sample of it
\* comes back exactly from XYtoRT and RTtoXY, through a theta in [-pi, pi]; and
\* a single sample written with setScanXY comes back exactly from getScanRT,
\* setScanRT of what that returned, and getScanXY.
C14_RoundTripExact ==
    /\ BothPopulated
          => \A i \in 1..Len(scan_xy_) :
                LET rt == XYtoRT(scan_xy_[i])
                IN  /\ rt.theta >= 0 - Pi /\ rt.theta <= Pi
                    /\ RTtoXY(rt) = scan_xy_[i]
    /\ (op.stage = 4 /\ Len(op.sent) = 1) => ret = op.sent

\* C14 (amended): the same with each coordinate coming back to within one
\* millionth of the sample's radius instead of exactly.
C14_RoundTripWithinTolerance ==
    /\ BothPopulated
          => \A i \in 1..Len(scan_xy_) :
                LET rt == XYtoRT(scan_xy_[i])
                IN  /\ rt.theta >= 0 - Pi /\ rt.theta <= Pi
                    /\ Close(RTtoXY(rt), scan_xy_[i], rt.radius)
    /\ (op.stage = 4 /\ Len(op.sent) = 1)
          => /\ Len(ret) = 1
             /\ Close(ret[1], op.sent[1], XYtoRT(op.sent[1]).radius)

\* the sample (0, 1) has gone through polar form and come back from getScanXY
C14_Witness ==
    /\ op.stage = 4
    /\ op.name = "getScanXY"
    /\ Len(op.sent) = 1
    /\ op.sent[1].x = 0
    /\ op.sent[1].y = XYScale
    /\ ret # op.sent

\* the polar sequence a getScanRT call works on: the stored one, or the one
\* derived from the Cartesian samples when only those are stored
StoredPolar == IF scan_rt_ = <<>> /\ scan_xy_ # <<>> THEN scanXYtoRT(scan_xy_)
               ELSE scan_rt_

\* getScanRT keeps the number of samples and the theta of every sample, and
\* with need_sort false their order
GetScanRTKeepsThetas ==
    op'.name = "getScanRT"
    => /\ Len(ret') = Len(StoredPolar)
       /\ Len(ret') = scan_size_value
       /\ \A i \in 1..Len(StoredPolar) :
             \E j \in 1..Len(ret') :
                /\ ret'[j].id = StoredPolar[i].id
                /\ ret'[j].theta = StoredPolar[i].theta
       /\ op'.arg = FALSE
             => \A i \in 1..Len(StoredPolar) :
                   /\ ret'[i].id = StoredPolar[i].id
                   /\ ret'[i].theta = StoredPolar[i].theta

\* C15 (as claimed): getScanRT keeps count and thetas, with need_sort false
\* their order too; so getScanRT(false) right after setScanXY returns element i
\* derived from Cartesian element i and leaves the flag false.
C15_ThetasKeptFlagFalse ==
    [][/\ GetScanRTKeepsThetas
       /\ (op.name = "setScanXY" /\ op'.name = "getScanRT" /\ op'.arg = FALSE)
             => /\ \A i \in 1..Len(scan_xy_) :
                      /\ ret'[i].id = scan_xy_[i].id
                      /\ ret'[i].theta = XYtoRT(scan_xy_[i]).theta
                /\ sorted_by_theta_' = FALSE]_vars

\* C15 (amended): the same, with the flag false afterwards when the frame
\* written with setScanXY was not empty.
C15_ThetasKeptFlagFalseUnlessEmpty ==
    [][/\ GetScanRTKeepsThetas
       /\ (op.name = "setScanXY" /\ op'.name = "getScanRT" /\ op'.arg = FALSE)
             => /\ \A i \in 1..Len(scan_xy_) :
                      /\ ret'[i].id = scan_xy_[i].id
                      /\ ret'[i].theta = XYtoRT(scan_xy_[i]).theta
                /\ scan_xy_ # <<>> => sorted_by_theta_' = FALSE
                /\ scan_xy_ = <<>> => (ret' = <<>> /\ UNCHANGED sorted_by_theta_)]_vars

\* getScanRT(false) right after setScanXY of three samples that are not in
\* angular order
C15_Witness ==
    /\ op.stage = 2
    /\ op.name = "getScanRT"
    /\ op.arg = FALSE
    /\ Len(ret) = 3
    /\ ~IsSorted(ret)
    /\ ~sorted_by_theta_
    /\ \A i \in 1..3 : ret[i].id = i

\* angular distance on the circle
CircDist(a, b) == IF Abs(a - b) > Pi THEN 2 * Pi - Abs(a - b) ELSE Abs(a - b)

\* C16 (as claimed): when getScanRT(true) sorts and smooths, two samples on
\* opposite sides of the cut at +pi/-pi whose circular distance is at most
\* delta_theta each come back with a radius no larger than the smaller of
\* their two radii.
C16_WrapNeighbours ==
    [][(op'.name = "getScanRT" /\ op'.arg = TRUE
            /\ scan_rt_ # <<>> /\ ~sorted_by_theta_)
       => \A i \in 1..Len(scan_rt_) : \A j \in 1..Len(scan_rt_) :
             (/\ scan_rt_[i].theta <= 0 - HalfPi
              /\ scan_rt_[j].theta >= HalfPi
              /\ CircDist(scan_rt_[i].theta, scan_rt_[j].theta) <= DeltaTheta)
             => /\ ById(ret', scan_rt_[i].id).radius
                      <= fmin(scan_rt_[i].radius, scan_rt_[j].radius)
                /\ ById(ret', scan_rt_[j].id).radius
                      <= fmin(scan_rt_[i].radius, scan_rt_[j].radius)]_vars

\* C17 (as claimed): scan_size returns what it would return had the same
\* constructor and writes been run with no getScanXY or getScanRT between them.
C17_SizeIgnoresReads ==
    op.name = "scan_size"
    => ret = <<IF op.w_xy = 0 THEN op.w_rt ELSE op.w_xy>>

\* C18: when setScanRT and scan_rt_push_back are never told the data is sorted,
\* the flag is true only over a polar vector sorted ascending by theta, and
\* every getScanRT(true) returns a sorted sequence and leaves the flag true.
C18_FlagSoundWithoutAssertions ==
    /\ sorted_by_theta_ => IsSorted(scan_rt_)
    /\ (op.name = "getScanRT" /\ op.arg = TRUE)
          => (IsSorted(ret) /\ sorted_by_theta_)

\* getScanRT(true) has found the flag still true from an earlier call over
\* Cartesian samples written since with setScanXY, not in angular order, and
\* has converted and sorted them
C18_Witness ==
    /\ op.name = "getScanRT"
    /\ op.arg = TRUE
    /\ op.pre_sorted
    /\ op.pre_xy
    /\ ~op.pre_rt
    /\ sorted_by_theta_
    /\ Len(scan_rt_) = 2
    /\ scan_rt_[1].theta < scan_rt_[2].theta
    /\ scan_rt_[1].id = 2

\* x and y of every sample, in order
Points(s) == [i \in 1..Len(s) |-> [x |-> s[i].x, y |-> s[i].y]]

\* C19: on a default-constructed frame every getScanXY, getScanRT and scan_size
\* returns the same values as the same call on the frame that was constructed
\* with the other value of the flag and taken through the same calls.
C19_InitialFlagUnobservable ==
    /\ op.name = "getScanXY" => Points(ret) = Points(op.twin.ret)
    /\ op.name = "getScanRT" => Vals(ret) = Vals(op.twin.ret)
    /\ op.name = "scan_size" => ret = op.twin.ret

\* getScanRT(true) has found the flag true on one frame and false on the other,
\* never assigned since the default constructor, over two Cartesian samples
\* written with setScanXY that are not in angular order, and has returned them
\* sorted on both
C19_Witness ==
    /\ op.name = "getScanRT"
    /\ op.arg = TRUE
    /\ op.pre_sorted # op.twin_pre_sorted
    /\ op.pre_xy
    /\ ~op.pre_rt
    /\ Len(ret) = 2
    /\ ret[1].id = 2
    /\ ret[1].theta < ret[2].theta
    /\ Vals(op.twin.ret) = Vals(ret)

====
